---- MODULE Spec2Model ----
(***************************************************************************)
(* A model of sltools (sltop): the job ordering of sort_jobs, the merging  *)
(* loop of coalesce_jobs with _get_smart_diff, the accounting of           *)
(* calculate_node_usage and the refresh loop of main.                      *)
(*                                                                         *)
(* Python strings that the code inspects character by character (job       *)
(* names, pending reasons, resource-spec strings) are sequences of         *)
(* one-character strings; strings the code only compares for equality      *)
(* (partition, user, state) or hands to an external tool (nodelist) are    *)
(* TLA+ strings.                                                           *)
(***************************************************************************)
EXTENDS Integers, Sequences, FiniteSets, TLC

VARIABLES
    pc,         \* position of the modelled routine
    jobs,       \* the job list handed to the routine
    result,     \* sort_jobs: [raised, jobs]
    idx,        \* coalesce_jobs: number of input jobs the for loop has consumed
    current_group, \* coalesce_jobs: the accumulator (None, a Job or a JobGroup)
    coalesced,  \* coalesce_jobs: the output list
    merged,     \* coalesce_jobs: the local `merged` after the latest loop iteration
    nodes,      \* the node snapshot
    usage,      \* calculate_node_usage: [raised, usage]
    tick,       \* main: refresh ticks started
    env         \* main: options, terminal and the outcomes of this tick's fetches

vars == <<pc, jobs, result, idx, current_group, coalesced, merged, nodes, usage, tick, env>>

\* ------------------------------------------------------------------ bounds

\* longest job list handed to sort_jobs
MaxSortJobs == 3

\* longest job list handed to coalesce_jobs
MaxCoalesceJobs == 3

\* longest job list handed to calculate_node_usage
MaxUsageJobs == 3

\* refresh ticks of main that are followed
MaxTicks == 2

\* longest candidate name of the inputs that sweep the similarity threshold
MaxNameLen == 24

\* ------------------------------------------------------------- strings

s_Resources == <<"R","e","s","o","u","r","c","e","s">>
s_Priority == <<"P","r","i","o","r","i","t","y">>
s_Dependency == <<"D","e","p","e","n","d","e","n","c","y">>
s_RUNNING == <<"R","U","N","N","I","N","G">>
s_None == <<"N","o","n","e">>
s_BeginTime == <<"B","e","g","i","n","T","i","m","e">>
s_QOSMaxJobs == <<"Q","O","S","M","a","x","J","o","b","s">>
s_qos == <<"q","o","s">>

UpperChars == <<"A","B","C","D","E","F","G","H","I","J","K","L","M",
                "N","O","P","Q","R","S","T","U","V","W","X","Y","Z">>
LowerChars == <<"a","b","c","d","e","f","g","h","i","j","k","l","m",
                "n","o","p","q","r","s","t","u","v","w","x","y","z">>

\* str.lower() on one character
LowerChar(c) ==
    IF \E i \in 1..Len(UpperChars) : UpperChars[i] = c
    THEN LowerChars[CHOOSE i \in 1..Len(UpperChars) : UpperChars[i] = c]
    ELSE c

\* str.lower()
Lower(s) == [i \in 1..Len(s) |-> LowerChar(s[i])]

\* needle in hay (substring test)
StrContains(hay, needle) ==
    \E i \in 0..(Len(hay) - Len(needle)) :
        \A k \in 1..Len(needle) : hay[i + k] = needle[k]

\* ---------------------------------------------------------------- records

\* dataclass Job
Job(id, part, name, user, state, start, node_count, nodelist, tres, reason, cpus, memory) ==
    [job_id |-> id, partition |-> part, name |-> name, user_name |-> user,
     job_state |-> state, start_time |-> start, node_count |-> node_count,
     nodelist |-> nodelist, tres_per_node |-> tres, state_reason |-> reason,
     cpus |-> cpus, memory |-> memory]

\* Python's None, and the test for it
None == [is_none |-> TRUE]

\* ------------------------------------------------------------- sort_jobs

\* insertion of j into a list sorted on field, after every element whose key
\* is not greater (list.sort and sorted are stable)
RECURSIVE InsertStable(_, _, _)
InsertStable(sorted, j, field) ==
    IF sorted = <<>> THEN <<j>>
    ELSE IF sorted[Len(sorted)][field] <= j[field] THEN Append(sorted, j)
    ELSE Append(InsertStable(SubSeq(sorted, 1, Len(sorted) - 1), j, field),
                sorted[Len(sorted)])

\* sorted(s, key=lambda j: j.<field>)
RECURSIVE StableSort(_, _)
StableSort(s, field) ==
    IF s = <<>> THEN <<>>
    ELSE InsertStable(StableSort(SubSeq(s, 1, Len(s) - 1), field), s[Len(s)], field)

\* mutant of SortById: the list is left in its input order
SortById_Skipped(js) == js

\* jobs.sort(key=lambda j: j.job_id)
SortById(js) == StableSort(js, "job_id")

\* sorted(running, key=lambda j: j.start_time)
SortByStart(js) == StableSort(js, "start_time")

\* the category a job is filed under
Category(j) == IF j.job_state = "RUNNING" THEN s_RUNNING ELSE j.state_reason

\* a dict as the list of its (key, value) pairs in insertion order
DictHas(d, k) == \E i \in 1..Len(d) : d[i].k = k
DictGet(d, k, default) ==
    IF DictHas(d, k) THEN d[CHOOSE i \in 1..Len(d) : d[i].k = k].v ELSE default
\* d without key k (dict.pop's effect on d)
DictDel(d, k) == SelectSeq(d, LAMBDA e : e.k # k)
\* d[k] = v
DictSet(d, k, v) ==
    IF DictHas(d, k) THEN [i \in 1..Len(d) |-> IF d[i].k = k THEN [k |-> k, v |-> v] ELSE d[i]]
    ELSE Append(d, [k |-> k, v |-> v])

\* the loop filling job_categories
RECURSIVE Categorize(_, _)
Categorize(js, d) ==
    IF js = <<>> THEN d
    ELSE Categorize(Tail(js),
                    DictSet(d, Category(Head(js)),
                            Append(DictGet(d, Category(Head(js)), <<>>), Head(js))))

\* `for k in job_categories: if "qos" in k.lower(): sorted_jobs += job_categories.pop(k)`
\* The dict iterator is at position i of the keys it started with (keys); changed
\* says a pop has changed the dict's size since the iterator was made.  The
\* iterator checks the size before it yields a key and before it reports
\* exhaustion, and raises RuntimeError when it differs.
RECURSIVE QosLoop(_, _, _, _, _)
QosLoop(keys, i, d, out, changed) ==
    IF changed THEN [raised |-> TRUE, d |-> d, out |-> out]
    ELSE IF i > Len(keys) THEN [raised |-> FALSE, d |-> d, out |-> out]
    ELSE IF StrContains(Lower(keys[i]), s_qos)
         THEN QosLoop(keys, i + 1, DictDel(d, keys[i]), out \o DictGet(d, keys[i], <<>>), TRUE)
         ELSE QosLoop(keys, i + 1, d, out, FALSE)

\* `for k, v in job_categories.items(): sorted_jobs += v`
RECURSIVE ConcatValues(_)
ConcatValues(d) == IF d = <<>> THEN <<>> ELSE Head(d).v \o ConcatValues(Tail(d))

\* sort_jobs: [raised |-> an exception left the function, jobs |-> the list returned]
sort_jobs(js) ==
    LET d0 == Categorize(SortById(js), <<>>)
        head == SortByStart(DictGet(d0, s_RUNNING, <<>>))
                    \o DictGet(d0, s_Resources, <<>>)
                    \o DictGet(d0, s_Priority, <<>>)
        d1 == DictDel(DictDel(DictDel(d0, s_RUNNING), s_Resources), s_Priority)
        q == QosLoop([i \in 1..Len(d1) |-> d1[i].k], 1, d1, head, FALSE)
        d2 == DictDel(q.d, s_Dependency)
    IN  IF q.raised THEN [raised |-> TRUE, jobs |-> <<>>]
        ELSE [raised |-> FALSE,
              jobs |-> q.out \o DictGet(q.d, s_Dependency, <<>>) \o ConcatValues(d2)]

\* --------------------------------------------------- inputs of sort_jobs

\* the jobs of a snapshot, apart from their ids: RUNNING jobs with two start
\* times, PENDING jobs with each pending reason, and a CANCELLED job
SortJobKinds ==
    { [job_state |-> "RUNNING", start_time |-> t, state_reason |-> s_None] : t \in {50, 100} }
    \cup { [job_state |-> "PENDING", start_time |-> 0, state_reason |-> r] :
             r \in {s_Resources, s_Priority, s_Dependency, s_QOSMaxJobs, s_None, s_BeginTime} }
    \cup { [job_state |-> "CANCELLED", start_time |-> 0, state_reason |-> s_None] }

SortJob(id, kind) ==
    Job(id, "p1", <<"a">>, "u1", kind.job_state, kind.start_time, 0, "", <<>>,
        kind.state_reason, 0, 0)

\* the id lists of n jobs with unique ids, in any order
SortIds(n) ==
    { f \in [1..n -> 1..MaxSortJobs] : \A a, b \in 1..n : a # b => f[a] # f[b] }

\* a job list handed to sort_jobs: at most MaxSortJobs jobs with unique ids
IsSortInput(js) ==
    \E n \in 0..MaxSortJobs : \E ids \in SortIds(n) : \E kinds \in [1..n -> SortJobKinds] :
        js = [i \in 1..n |-> SortJob(ids[i], kinds[i])]

\* main's environment before main runs
NoEnv == [merge |-> FALSE, isatty |-> FALSE, old_settings |-> "None", cbreak |-> FALSE,
          squeue |-> "none", scontrol |-> "none", key |-> "none", rc |-> <<>>]

NoResult == [raised |-> FALSE, jobs |-> <<>>]
NoUsage == [raised |-> FALSE, usage |-> << >>]

InitSort ==
    /\ pc = "sort_input"
    /\ IsSortInput(jobs)
    /\ result = NoResult
    /\ idx = 0 /\ current_group = None /\ coalesced = <<>> /\ merged = FALSE
    /\ nodes = <<>> /\ usage = NoUsage /\ tick = 0 /\ env = NoEnv

\* a call of sort_jobs on the snapshot
SortCall ==
    /\ pc = "sort_input"
    /\ result' = sort_jobs(jobs)
    /\ pc' = IF result'.raised THEN "sort_raised" ELSE "sort_returned"
    /\ UNCHANGED <<jobs, idx, current_group, coalesced, merged, nodes, usage, tick, env>>

NextSort == SortCall

SpecSort == InitSort /\ [][NextSort]_vars

\* ---------------------------------------------------------- coalesce_jobs

\* JobGroup.__init__: the job's fields, ids = [job.job_id], combined_name = job.name
JobGroup(job) ==
    [job_id |-> job.job_id, partition |-> job.partition, name |-> job.name,
     user_name |-> job.user_name, job_state |-> job.job_state,
     start_time |-> job.start_time, node_count |-> job.node_count,
     nodelist |-> job.nodelist, tres_per_node |-> job.tres_per_node,
     state_reason |-> job.state_reason, cpus |-> job.cpus, memory |-> job.memory,
     ids |-> <<job.job_id>>, combined_name |-> job.name]

\* isinstance(x, JobGroup)
IsJobGroup(x) == "ids" \in DOMAIN x

delimiters == {".", "-", "_", "/", ":"}

Min(a, b) == IF a <= b THEN a ELSE b

\* the loop finding the longest common prefix, from prefix_len = n
RECURSIVE CommonPrefixLen(_, _, _)
CommonPrefixLen(s1, s2, n) ==
    IF n < Min(Len(s1), Len(s2)) /\ s1[n + 1] = s2[n + 1]
    THEN CommonPrefixLen(s1, s2, n + 1)
    ELSE n

\* the loop finding the longest common suffix that stays clear of the prefix
RECURSIVE CommonSuffixLen(_, _, _, _)
CommonSuffixLen(s1, s2, prefix_len, n) ==
    IF n < Min(Len(s1) - prefix_len, Len(s2) - prefix_len)
       /\ s1[Len(s1) - n] = s2[Len(s2) - n]
    THEN CommonSuffixLen(s1, s2, prefix_len, n + 1)
    ELSE n

\* the loop moving the end of the prefix back to just after a delimiter
RECURSIVE BacktrackPrefix(_, _)
BacktrackPrefix(s1, n) ==
    IF n > 0 /\ s1[n] \notin delimiters THEN BacktrackPrefix(s1, n - 1) ELSE n

\* the loop moving the start of the suffix forward onto a delimiter
RECURSIVE ShrinkSuffix(_, _)
ShrinkSuffix(s1, n) ==
    IF n > 0 /\ s1[Len(s1) - n + 1] \notin delimiters THEN ShrinkSuffix(s1, n - 1) ELSE n

\* _get_smart_diff: None, or (prefix, diff1, diff2, suffix)
get_smart_diff(s1, s2) ==
    IF s1 = s2 THEN None
    ELSE LET prefix_len == CommonPrefixLen(s1, s2, 0)
             suffix_len == CommonSuffixLen(s1, s2, prefix_len, 0)
             current_prefix_len == BacktrackPrefix(s1, prefix_len)
             current_suffix_len == ShrinkSuffix(s1, suffix_len)
         IN  [prefix |-> SubSeq(s1, 1, current_prefix_len),
              diff1 |-> SubSeq(s1, current_prefix_len + 1, Len(s1) - current_suffix_len),
              diff2 |-> SubSeq(s2, current_prefix_len + 1, Len(s2) - current_suffix_len),
              suffix |-> SubSeq(s1, Len(s1) - current_suffix_len + 1, Len(s1))]

\* mutant of Eligible: RUNNING jobs are let through
Eligible_RunningAllowed(cg, job) ==
    /\ cg.partition = job.partition
    /\ cg.user_name = job.user_name
    /\ cg.job_state = job.job_state
    /\ cg.state_reason = job.state_reason

\* the eligibility conditions of a merge of job into current_group
Eligible(cg, job) ==
    /\ cg.job_state # "RUNNING"
    /\ job.job_state # "RUNNING"
    /\ cg.partition = job.partition
    /\ cg.user_name = job.user_name
    /\ cg.job_state = job.job_state
    /\ cg.state_reason = job.state_reason

\* name1: the accumulator's combined name when it is a group, else its name
AccumulatorName(cg) == IF IsJobGroup(cg) THEN cg.combined_name ELSE cg.name

\* mutant of AcceptMerge: the half-length rule applies to spans of any length
AcceptMerge_NoCap(D, L) == (D < (L \div 4)) \/ (D < (L \div 2))

\* the similarity threshold on D = len(diff2) and L = len(name2)
AcceptMerge(D, L) == (D < (L \div 4)) \/ ((D < 5) /\ (D < (L \div 2)))

\* the combined name written on an accepted merge
CombinedName(res) ==
    IF /\ Len(res.diff1) >= 1
       /\ res.diff1[1] = "["
       /\ res.diff1[Len(res.diff1)] = "]"
    THEN res.prefix \o <<"[">> \o SubSeq(res.diff1, 2, Len(res.diff1) - 1)
             \o <<",">> \o res.diff2 \o <<"]">> \o res.suffix
    ELSE res.prefix \o <<"[">> \o res.diff1 \o <<",">> \o res.diff2 \o <<"]">> \o res.suffix

\* mutant of AppendId: the id goes to the front of the list
AppendId_AtFront(ids, job) == <<job.job_id>> \o ids

\* current_group.ids.append(job.job_id)
AppendId(ids, job) == Append(ids, job.job_id)

\* the accumulator after an accepted merge of job
MergeInto(cg, job, res) ==
    LET g == IF IsJobGroup(cg) THEN cg ELSE JobGroup(cg)
    IN  [g EXCEPT !.ids = AppendId(g.ids, job), !.combined_name = CombinedName(res)]

\* whether the loop body merges job into the accumulator
Merges(cg, job) ==
    /\ Eligible(cg, job)
    /\ LET res == get_smart_diff(AccumulatorName(cg), job.name)
       IN  /\ res # None
           /\ AcceptMerge(Len(res.diff2), Len(job.name))

\* mutant of Seed: the accumulator is wrapped in a JobGroup from the start
Seed_Wrapped(job) == JobGroup(job)

\* the accumulator started from a job: the bare job
Seed(job) == job

\* mutant of Flush: the accumulator is dropped instead of emitted
Flush_Dropped(out, cg) == out

\* coalesced.append(current_group)
Flush(out, cg) == Append(out, cg)

\* the body of `for job in jobs` for one job: the accumulator, the output list
\* and the local `merged` after it
LoopBody(cg, out, m, job) ==
    IF cg = None
    THEN [current_group |-> Seed(job), coalesced |-> out, merged |-> m]
    ELSE IF Merges(cg, job)
    THEN [current_group |->
              MergeInto(cg, job, get_smart_diff(AccumulatorName(cg), job.name)),
          coalesced |-> out, merged |-> TRUE]
    ELSE [current_group |-> Seed(job), coalesced |-> Flush(out, cg), merged |-> FALSE]

\* mutant of FinalFlush: the last accumulator is not emitted
FinalFlush_Skipped(out, cg) == out

\* `if current_group: coalesced.append(current_group)`
FinalFlush(out, cg) == IF cg # None THEN Flush(out, cg) ELSE out

\* the loop `for job in jobs` and the final flush
RECURSIVE CoalesceLoop(_, _, _)
CoalesceLoop(js, cg, out) ==
    IF js = <<>> THEN FinalFlush(out, cg)
    ELSE LET r == LoopBody(cg, out, FALSE, Head(js))
         IN  CoalesceLoop(Tail(js), r.current_group, r.coalesced)

\* coalesce_jobs as one call
coalesce_jobs(js) == IF js = <<>> THEN <<>> ELSE CoalesceLoop(js, None, <<>>)

\* ----------------------------------------------- inputs of coalesce_jobs

n_ab1 == <<"a","b","_","1">>
n_ab2 == <<"a","b","_","2">>
n_abB1 == <<"a","b","_","[","1","]">>
n_r1xf == <<"r","_","1","x",".","f">>
n_r2xf == <<"r","_","2","x",".","f">>
n_x1 == <<"x","1">>
n_abb1 == <<"a","b","_","b","_","1">>
n_abb2 == <<"a","b","_","b","_","2">>
n_abc == <<"a","b","_","c">>

CoalesceNames == {n_ab1, n_ab2, n_abB1, n_r1xf, n_r2xf, n_x1, n_abb1, n_abb2, n_abc}

\* the jobs of an input apart from their ids: PENDING jobs of one partition,
\* user and reason with each name, RUNNING jobs with two names, and jobs that
\* differ from the PENDING ones in one of state, partition, user and reason
CoalesceJobKinds ==
    { [name |-> n, job_state |-> "PENDING", partition |-> "p1", user_name |-> "u1",
       state_reason |-> s_Resources] : n \in CoalesceNames }
    \cup { [name |-> n_ab2, job_state |-> st, partition |-> "p1", user_name |-> "u1",
            state_reason |-> s_Resources] : st \in {"RUNNING", "CANCELLED"} }
    \cup { [name |-> n_ab1, job_state |-> "RUNNING", partition |-> "p1", user_name |-> "u1",
            state_reason |-> s_Resources] }
    \cup { [name |-> n_ab2, job_state |-> "PENDING", partition |-> "p2", user_name |-> "u1",
            state_reason |-> s_Resources],
           [name |-> n_ab2, job_state |-> "PENDING", partition |-> "p1", user_name |-> "u2",
            state_reason |-> s_Resources],
           [name |-> n_ab2, job_state |-> "PENDING", partition |-> "p1", user_name |-> "u1",
            state_reason |-> s_Priority] }

CoalesceJob(id, kind) ==
    Job(id, kind.partition, kind.name, kind.user_name, kind.job_state, 0, 0, "", <<>>,
        kind.state_reason, 0, 0)

\* the ids of an input of n jobs: ascending, or descending
CoalesceIds(n) == { [i \in 1..n |-> 4 + i], [i \in 1..n |-> 4 + n - i] }

\* a job list handed to coalesce_jobs: at most MaxCoalesceJobs jobs
IsCoalesceInput(js) ==
    \E n \in 0..MaxCoalesceJobs : \E ids \in CoalesceIds(n) :
        \E kinds \in [1..n -> CoalesceJobKinds] :
            js = [i \in 1..n |-> CoalesceJob(ids[i], kinds[i])]

InitCoalesce ==
    /\ pc = "coalesce_input"
    /\ IsCoalesceInput(jobs)
    /\ result = NoResult
    /\ idx = 0 /\ current_group = None /\ coalesced = <<>> /\ merged = FALSE
    /\ nodes = <<>> /\ usage = NoUsage /\ tick = 0 /\ env = NoEnv

\* `if not jobs: return []`, else the set-up of the loop
CoalesceEnter ==
    /\ pc = "coalesce_input"
    /\ pc' = IF jobs = <<>> THEN "coalesce_returned" ELSE "coalesce_loop"
    /\ coalesced' = <<>>
    /\ current_group' = None
    /\ UNCHANGED <<jobs, result, idx, merged, nodes, usage, tick, env>>

\* one iteration of `for job in jobs`
CoalesceIterate ==
    /\ pc = "coalesce_loop"
    /\ idx < Len(jobs)
    /\ idx' = idx + 1
    /\ LET r == LoopBody(current_group, coalesced, merged, jobs[idx + 1])
       IN  /\ current_group' = r.current_group
           /\ coalesced' = r.coalesced
           /\ merged' = r.merged
    /\ UNCHANGED <<pc, jobs, result, nodes, usage, tick, env>>

\* the end of the loop: `if current_group: coalesced.append(current_group)`, return
CoalesceReturn ==
    /\ pc = "coalesce_loop"
    /\ idx = Len(jobs)
    /\ coalesced' = FinalFlush(coalesced, current_group)
    /\ pc' = "coalesce_returned"
    /\ UNCHANGED <<jobs, result, idx, current_group, merged, nodes, usage, tick, env>>

NextCoalesce == CoalesceEnter \/ CoalesceIterate \/ CoalesceReturn

SpecCoalesce == InitCoalesce /\ [][NextCoalesce]_vars

\* ------------------------------- inputs that sweep the similarity threshold

\* the string of n characters c
Repeat(c, n) == [i \in 1..n |-> c]

\* a candidate name of length L whose differing span against the accumulator
\* name below has length D: a common prefix that ends with a delimiter, then D
\* characters; for D = L the names have nothing in common
ThresholdCandidateName(D, L) ==
    IF D < L THEN Repeat("a", L - D - 1) \o <<"_">> \o Repeat("b", D)
    ELSE Repeat("b", L)

ThresholdAccumulatorName(D, L) ==
    IF D < L THEN Repeat("a", L - D - 1) \o <<"_", "c">>
    ELSE <<"c">>

\* two jobs alike in partition, user and reason: a PENDING job and a
\* candidate, PENDING or RUNNING, with a name of at most MaxNameLen characters
IsThresholdInput(js) ==
    \E L \in 0..MaxNameLen : \E D \in 0..L : \E st \in {"PENDING", "RUNNING"} :
        js = << Job(5, "p1", ThresholdAccumulatorName(D, L), "u1", "PENDING", 0, 0, "", <<>>,
                    s_Resources, 0, 0),
                Job(6, "p1", ThresholdCandidateName(D, L), "u1", st, 0, 0, "", <<>>,
                    s_Resources, 0, 0) >>

InitThreshold ==
    /\ pc = "coalesce_input"
    /\ IsThresholdInput(jobs)
    /\ result = NoResult
    /\ idx = 0 /\ current_group = None /\ coalesced = <<>> /\ merged = FALSE
    /\ nodes = <<>> /\ usage = NoUsage /\ tick = 0 /\ env = NoEnv

\* coalesce_jobs on the inputs that sweep D and L
SpecThreshold == InitThreshold /\ [][NextCoalesce]_vars

\* ------------------------------------------------------ expand_nodelist

\* `scontrol show hostnames <nodelist>`: whether it exits with success, and the
\* lines it prints.  A malformed node list makes it fail.
Hostnames(nodelist) ==
    CASE nodelist = "n1" -> [ok |-> TRUE, lines |-> <<"n1">>]
      [] nodelist = "n[1-2]" -> [ok |-> TRUE, lines |-> <<"n1", "n2">>]
      [] nodelist = "n3" -> [ok |-> TRUE, lines |-> <<"n3">>]
      [] OTHER -> [ok |-> FALSE, lines |-> <<>>]

\* expand_nodelist: [] for an empty string and on any failure of scontrol
expand_nodelist(nodelist) ==
    IF nodelist = "" THEN <<>>
    ELSE IF Hostnames(nodelist).ok THEN Hostnames(nodelist).lines
    ELSE <<>>

\* ---------------------------------------------- Job.get_resources_per_node

s_gres == <<"g","r","e","s","/">>
s_gpu == <<"g","p","u">>
s_cpu == <<"c","p","u">>
s_mem == <<"m","e","m">>

Digits == <<"0","1","2","3","4","5","6","7","8","9">>
IsDigit(c) == \E i \in 1..Len(Digits) : Digits[i] = c
DigitValue(c) == (CHOOSE i \in 1..Len(Digits) : Digits[i] = c) - 1

\* int(s) on a string of decimal digits: [ok |-> FALSE] stands for ValueError
RECURSIVE DecimalValue(_)
DecimalValue(s) ==
    IF s = <<>> THEN 0
    ELSE 10 * DecimalValue(SubSeq(s, 1, Len(s) - 1)) + DigitValue(s[Len(s)])

ParseInt(s) ==
    IF s # <<>> /\ \A i \in 1..Len(s) : IsDigit(s[i])
    THEN [ok |-> TRUE, val |-> DecimalValue(s)]
    ELSE [ok |-> FALSE, val |-> 0]

\* s.startswith(prefix)
StartsWith(s, prefix) == Len(s) >= Len(prefix) /\ SubSeq(s, 1, Len(prefix)) = prefix

\* s.split(sep) for a one-character separator
RECURSIVE Split(_, _)
Split(s, sep) ==
    IF \E i \in 1..Len(s) : s[i] = sep
    THEN LET i == CHOOSE k \in 1..Len(s) : s[k] = sep /\ \A m \in 1..(k - 1) : s[m] # sep
         IN  <<SubSeq(s, 1, i - 1)>> \o Split(SubSeq(s, i + 1, Len(s)), sep)
    ELSE <<s>>

\* the loop over the comma-separated parts, filling res (a dict as a function)
RECURSIVE ParseParts(_, _)
ParseParts(parts, res) ==
    IF parts = <<>> THEN res
    ELSE LET sub == Split(Head(parts), ":")
             val == ParseInt(sub[Len(sub)])
         IN  IF Len(sub) >= 2 /\ val.ok
             THEN ParseParts(Tail(parts),
                             [k \in DOMAIN res \cup {sub[1]} |->
                                 IF k = sub[1] THEN val.val ELSE res[k]])
             ELSE ParseParts(Tail(parts), res)

\* Job.get_resources_per_node
get_resources_per_node(job) ==
    IF job.tres_per_node = <<>> THEN << >>
    ELSE LET tres_str == IF StartsWith(job.tres_per_node, s_gres)
                         THEN SubSeq(job.tres_per_node, 6, Len(job.tres_per_node))
                         ELSE job.tres_per_node
         IN  ParseParts(Split(tres_str, ","), << >>)

\* dict.get(k, default) on a dict kept as a function
Get(d, k, default) == IF k \in DOMAIN d THEN d[k] ELSE default

\* ----------------------------------------------------- calculate_node_usage

\* usage = {n.name: {"cpus": {}, "gpus": {}, "memory": {}} for n in nodes}
EmptyUsage(ns) ==
    [n \in { ns[i].name : i \in 1..Len(ns) } |->
        [cpus |-> << >>, gpus |-> << >>, memory |-> << >>]]

\* mutant of SkipsJob: a job with no nodes is not passed over
SkipsJob_NoZeroCheck(job, affected_nodes) == job.job_state # "RUNNING"

\* the two `continue`s at the head of the loop body
SkipsJob(job, affected_nodes) ==
    job.job_state # "RUNNING" \/ Len(affected_nodes) = 0

\* gpus_alloc
GpusAlloc(job) == Get(get_resources_per_node(job), s_gpu, 0)

\* whether `total // num_nodes` is evaluated for a parsed value and a job total
Distributes(parsed, total) == parsed = 0 /\ total > 0

\* mutant of Distributed: the job's total is charged to every node
Distributed_Undivided(parsed, total, num_nodes) ==
    IF Distributes(parsed, total) THEN total ELSE parsed

\* cpus_alloc and mem_alloc: the parsed value, or the job's total over num_nodes
Distributed(parsed, total, num_nodes) ==
    IF Distributes(parsed, total) THEN total \div num_nodes ELSE parsed

CpusAlloc(job, num_nodes) ==
    Distributed(Get(get_resources_per_node(job), s_cpu, 0), job.cpus, num_nodes)

MemAlloc(job, num_nodes) ==
    Distributed(Get(get_resources_per_node(job), s_mem, 0), job.memory, num_nodes)

\* mutant of Accumulate: the count is overwritten instead of added to
Accumulate_Overwrite(d, p, alloc) ==
    IF alloc > 0
    THEN [k \in DOMAIN d \cup {p} |-> IF k = p THEN alloc ELSE d[k]]
    ELSE d

\* `if alloc > 0: d[p] = d.get(p, 0) + alloc`
Accumulate(d, p, alloc) ==
    IF alloc > 0
    THEN [k \in DOMAIN d \cup {p} |-> IF k = p THEN Get(d, p, 0) + alloc ELSE d[k]]
    ELSE d

\* mutant of AccountNodes: a name the usage map lacks gets an entry of its own
RECURSIVE AccountNodes_AddsAbsent(_, _, _, _, _, _)
AccountNodes_AddsAbsent(u, names, p, cpus_alloc, gpus_alloc, mem_alloc) ==
    IF names = <<>> THEN u
    ELSE LET n == Head(names)
             old == IF n \in DOMAIN u THEN u[n]
                    ELSE [cpus |-> << >>, gpus |-> << >>, memory |-> << >>]
             new == [cpus |-> Accumulate(old.cpus, p, cpus_alloc),
                     gpus |-> Accumulate(old.gpus, p, gpus_alloc),
                     memory |-> Accumulate(old.memory, p, mem_alloc)]
         IN  AccountNodes_AddsAbsent([k \in DOMAIN u \cup {n} |-> IF k = n THEN new ELSE u[k]],
                                     Tail(names), p, cpus_alloc, gpus_alloc, mem_alloc)

\* the loop over affected_nodes
RECURSIVE AccountNodes(_, _, _, _, _, _)
AccountNodes(u, names, p, cpus_alloc, gpus_alloc, mem_alloc) ==
    IF names = <<>> THEN u
    ELSE IF Head(names) \notin DOMAIN u
    THEN AccountNodes(u, Tail(names), p, cpus_alloc, gpus_alloc, mem_alloc)
    ELSE AccountNodes(
             [u EXCEPT ![Head(names)] =
                 [cpus |-> Accumulate(@.cpus, p, cpus_alloc),
                  gpus |-> Accumulate(@.gpus, p, gpus_alloc),
                  memory |-> Accumulate(@.memory, p, mem_alloc)]],
             Tail(names), p, cpus_alloc, gpus_alloc, mem_alloc)

\* one iteration of `for job in jobs` on the usage map u:
\* [raised |-> ZeroDivisionError left the function, usage |-> the map after it]
AccountJob(u, job) ==
    LET affected_nodes == expand_nodelist(job.nodelist)
        num_nodes == Len(affected_nodes)
        res == get_resources_per_node(job)
    IN  IF SkipsJob(job, affected_nodes) THEN [raised |-> FALSE, usage |-> u]
        ELSE IF num_nodes = 0 /\ (\/ Distributes(Get(res, s_cpu, 0), job.cpus)
                                  \/ Distributes(Get(res, s_mem, 0), job.memory))
        THEN [raised |-> TRUE, usage |-> u]
        ELSE [raised |-> FALSE,
              usage |-> AccountNodes(u, affected_nodes, job.partition,
                                     CpusAlloc(job, num_nodes), GpusAlloc(job),
                                     MemAlloc(job, num_nodes))]

\* the loop `for job in jobs`, from the usage map u
RECURSIVE UsageLoop(_, _)
UsageLoop(u, js) ==
    IF js = <<>> THEN [raised |-> FALSE, usage |-> u]
    ELSE LET r == AccountJob(u, Head(js))
         IN  IF r.raised THEN r ELSE UsageLoop(r.usage, Tail(js))

\* calculate_node_usage as one call
calculate_node_usage(ns, js) == UsageLoop(EmptyUsage(ns), js)

\* --------------------------------------- inputs of calculate_node_usage

\* dataclass Node
Node(name, cpus, memory, gpus) ==
    [name |-> name, cpus |-> cpus, memory |-> memory, gpus |-> gpus,
     architecture |-> "x86_64", state |-> "IDLE"]

\* node snapshots as get_nodes returns them: sorted by name, or empty
NodeSnapshots ==
    { <<>>, <<Node("n1", 32, 64000, 4)>>,
      <<Node("n1", 32, 64000, 4), Node("n2", 16, 32000, 0)>> }

t_cpu8gpu2 == <<"c","p","u",":","8",",","g","p","u",":","2">>
t_cpu4 == <<"c","p","u",":","4">>
t_gresgpu1 == <<"g","r","e","s","/","g","p","u",":","1">>
t_gpua100 == <<"g","p","u",":","a","1","0","0",":","2">>
t_cpuXmem16 == <<"c","p","u",":","x",",","m","e","m",":","1","6">>
t_cpu0 == <<"c","p","u",":","0">>

\* the jobs of a snapshot apart from their ids
UsageJobKinds ==
    { [job_state |-> "RUNNING", partition |-> "p1", nodelist |-> "n1", node_count |-> 1,
       tres_per_node |-> t_cpu8gpu2, cpus |-> 8, memory |-> 0],
      [job_state |-> "RUNNING", partition |-> "p1", nodelist |-> "n1", node_count |-> 1,
       tres_per_node |-> t_cpu4, cpus |-> 4, memory |-> 9],
      [job_state |-> "RUNNING", partition |-> "p2", nodelist |-> "n[1-2]", node_count |-> 2,
       tres_per_node |-> t_gresgpu1, cpus |-> 5, memory |-> 7],
      [job_state |-> "RUNNING", partition |-> "p1", nodelist |-> "", node_count |-> 0,
       tres_per_node |-> t_gresgpu1, cpus |-> 4, memory |-> 6],
      [job_state |-> "RUNNING", partition |-> "p1", nodelist |-> "n[", node_count |-> 1,
       tres_per_node |-> <<>>, cpus |-> 4, memory |-> 0],
      [job_state |-> "PENDING", partition |-> "p1", nodelist |-> "n1", node_count |-> 1,
       tres_per_node |-> t_cpu8gpu2, cpus |-> 8, memory |-> 6],
      [job_state |-> "RUNNING", partition |-> "p1", nodelist |-> "n3", node_count |-> 1,
       tres_per_node |-> t_gpua100, cpus |-> 2, memory |-> 0],
      [job_state |-> "RUNNING", partition |-> "p2", nodelist |-> "n[1-2]", node_count |-> 2,
       tres_per_node |-> t_cpuXmem16, cpus |-> 3, memory |-> 5],
      [job_state |-> "RUNNING", partition |-> "p1", nodelist |-> "n[1-2]", node_count |-> 1,
       tres_per_node |-> t_cpu0, cpus |-> 6, memory |-> 0],
      [job_state |-> "RUNNING", partition |-> "p2", nodelist |-> "n[1-2]", node_count |-> 1,
       tres_per_node |-> <<>>, cpus |-> 6, memory |-> 0] }

UsageJob(id, kind) ==
    Job(id, kind.partition, <<"a">>, "u1", kind.job_state, 0, kind.node_count,
        kind.nodelist, kind.tres_per_node, s_None, kind.cpus, kind.memory)

\* a job list handed to calculate_node_usage: at most MaxUsageJobs jobs
IsUsageInput(js) ==
    \E n \in 0..MaxUsageJobs : \E kinds \in [1..n -> UsageJobKinds] :
        js = [i \in 1..n |-> UsageJob(i, kinds[i])]

InitUsage ==
    /\ pc = "usage_input"
    /\ IsUsageInput(jobs)
    /\ nodes \in NodeSnapshots
    /\ result = NoResult
    /\ idx = 0 /\ current_group = None /\ coalesced = <<>> /\ merged = FALSE
    /\ usage = NoUsage /\ tick = 0 /\ env = NoEnv

\* the first statement of calculate_node_usage
UsageEnter ==
    /\ pc = "usage_input"
    /\ usage' = [raised |-> FALSE, usage |-> EmptyUsage(nodes)]
    /\ pc' = "usage_loop"
    /\ UNCHANGED <<jobs, result, idx, current_group, coalesced, merged, nodes, tick, env>>

\* one iteration of `for job in jobs`
UsageIterate ==
    /\ pc = "usage_loop"
    /\ idx < Len(jobs)
    /\ idx' = idx + 1
    /\ usage' = AccountJob(usage.usage, jobs[idx + 1])
    /\ pc' = IF usage'.raised THEN "usage_raised" ELSE "usage_loop"
    /\ UNCHANGED <<jobs, result, current_group, coalesced, merged, nodes, tick, env>>

\* `return usage`
UsageReturn ==
    /\ pc = "usage_loop"
    /\ idx = Len(jobs)
    /\ pc' = "usage_returned"
    /\ UNCHANGED <<jobs, result, idx, current_group, coalesced, merged, nodes, usage, tick, env>>

NextUsage == UsageEnter \/ UsageIterate \/ UsageReturn

SpecUsage == InitUsage /\ [][NextUsage]_vars

\* ------------------------------------------------------------------- main

\* what `squeue --json` yields in a tick, turned into Jobs by Job.from_dict
MainJobSnapshots ==
    { <<>>,
      <<Job(3, "p1", n_x1, "u1", "RUNNING", 100, 1, "n1", t_cpu8gpu2, s_None, 8, 0),
        Job(2, "p1", n_ab1, "u1", "PENDING", 0, 0, "", <<>>, s_Resources, 0, 0),
        Job(1, "p1", n_ab2, "u1", "PENDING", 0, 0, "", <<>>, s_Resources, 0, 0)>>,
      <<Job(2, "p2", n_x1, "u1", "RUNNING", 100, 2, "n[1-2]", t_gresgpu1, s_None, 5, 7),
        Job(1, "p1", n_x1, "u2", "RUNNING", 50, 1, "n1", t_cpu4, s_None, 4, 9)>>,
      <<Job(1, "p1", n_ab1, "u1", "PENDING", 0, 0, "", <<>>, s_QOSMaxJobs, 0, 0)>>,
      <<Job(1, "p1", n_ab1, "u1", "RUNNING", 50, 1, "n1", t_cpu4, s_None, 4, 9),
        Job(2, "p1", n_ab2, "u1", "RUNNING", 50, 2, "n[1-2]", t_gresgpu1, s_None, 5, 7),
        Job(3, "p1", n_ab1, "u1", "PENDING", 0, 0, "", <<>>, s_Priority, 0, 0),
        Job(4, "p1", n_ab2, "u1", "PENDING", 0, 0, "", <<>>, s_Priority, 0, 0)>> }

\* mutant of Restored: the terminal is left as it is
Restored_Skipped(e) == e

\* the restoring of the terminal in main's `finally`
Restored(e) == IF e.old_settings # "None" THEN [e EXCEPT !.cbreak = FALSE] ELSE e

InitMain ==
    /\ pc = "main_start"
    /\ env \in { [NoEnv EXCEPT !.merge = m, !.isatty = t] : m \in BOOLEAN, t \in BOOLEAN }
    /\ jobs = <<>> /\ nodes = <<>> /\ usage = NoUsage /\ tick = 0
    /\ result = NoResult
    /\ idx = 0 /\ current_group = None /\ coalesced = <<>> /\ merged = FALSE

\* main up to the loop: the terminal is saved and put in cbreak mode on a tty
MainStart ==
    /\ pc = "main_start"
    /\ env' = IF env.isatty
              THEN [env EXCEPT !.old_settings = "saved", !.cbreak = TRUE]
              ELSE env
    /\ pc' = "tick_get_jobs"
    /\ UNCHANGED <<jobs, result, idx, current_group, coalesced, merged, nodes, usage, tick>>

\* `jobs = get_jobs()`: squeue fails and the exception leaves get_jobs and main
\* (through main's finally), or its output is parsed and handed to sort_jobs,
\* whose exception leaves main the same way
TickGetJobs ==
    /\ pc = "tick_get_jobs"
    /\ tick < MaxTicks
    /\ tick' = tick + 1
    /\ \/ /\ env' = Restored([env EXCEPT !.squeue = "failed", !.scontrol = "none"])
          /\ pc' = "main_raised"
          /\ UNCHANGED <<jobs, result>>
       \/ \E snapshot \in MainJobSnapshots :
            /\ result' = sort_jobs(snapshot)
            /\ IF result'.raised
               THEN /\ env' = Restored([env EXCEPT !.squeue = "ok", !.scontrol = "none"])
                    /\ pc' = "main_raised"
                    /\ UNCHANGED jobs
               ELSE /\ env' = [env EXCEPT !.squeue = "ok", !.scontrol = "none"]
                    /\ jobs' = result'.jobs
                    /\ pc' = "tick_coalesce"
    /\ UNCHANGED <<idx, current_group, coalesced, merged, nodes, usage>>

\* `if merge: jobs = coalesce_jobs(jobs)`
TickCoalesce ==
    /\ pc = "tick_coalesce"
    /\ jobs' = IF env.merge THEN coalesce_jobs(jobs) ELSE jobs
    /\ pc' = "tick_get_nodes"
    /\ UNCHANGED <<result, idx, current_group, coalesced, merged, nodes, usage, tick, env>>

\* `nodes = get_nodes()`: [] when scontrol or the parse of its output fails
TickGetNodes ==
    /\ pc = "tick_get_nodes"
    /\ \/ /\ env' = [env EXCEPT !.scontrol = "failed"]
          /\ nodes' = <<>>
       \/ /\ env' = [env EXCEPT !.scontrol = "ok"]
          /\ nodes' \in NodeSnapshots
    /\ pc' = "tick_render"
    /\ UNCHANGED <<jobs, result, idx, current_group, coalesced, merged, usage, tick>>

\* `panel = render(jobs, nodes, slurm_version)` and `live.update(panel)`
TickRender ==
    /\ pc = "tick_render"
    /\ usage' = calculate_node_usage(nodes, jobs)
    /\ pc' = "tick_wait"
    /\ UNCHANGED <<jobs, result, idx, current_group, coalesced, merged, nodes, tick, env>>

\* the keys select and read can deliver during the wait
Keys == {"q", "Q", "x"}

\* the wait between ticks: a timeout or a key other than q starts the next
\* tick, the quit key breaks out of the loop, and main returns 0; env.key
\* records what ended the wait
TickWait ==
    /\ pc = "tick_wait"
    /\ \/ /\ env' = [env EXCEPT !.key = "timeout"]
          /\ pc' = "tick_get_jobs"
       \/ /\ env.isatty
          /\ \E key \in Keys :
               IF LowerChar(key) = "q"
               THEN /\ env' = [Restored(env) EXCEPT !.rc = <<0>>, !.key = key]
                    /\ pc' = "main_returned"
               ELSE /\ env' = [env EXCEPT !.key = key]
                    /\ pc' = "tick_get_jobs"
    /\ UNCHANGED <<jobs, result, idx, current_group, coalesced, merged, nodes, usage, tick>>

\* KeyboardInterrupt during the wait: caught by main, which returns 0
TickInterrupt ==
    /\ pc = "tick_wait"
    /\ env' = [Restored(env) EXCEPT !.rc = <<0>>, !.key = "interrupt"]
    /\ pc' = "main_returned"
    /\ UNCHANGED <<jobs, result, idx, current_group, coalesced, merged, nodes, usage, tick>>

Next ==
    \/ MainStart
    \/ TickGetJobs
    \/ TickCoalesce
    \/ TickGetNodes
    \/ TickRender
    \/ TickWait
    \/ TickInterrupt

Spec == InitMain /\ [][Next]_vars

\* ------------------------------------------------------- claims: sort_jobs

\* the rank of a bucket in the documented emission order
BucketClass(key) ==
    IF key = s_RUNNING THEN 0
    ELSE IF key = s_Resources THEN 1
    ELSE IF key = s_Priority THEN 2
    ELSE IF StrContains(Lower(key), s_qos) THEN 3
    ELSE IF key = s_Dependency THEN 4
    ELSE 5

\* the smallest id filed under key: the bucket's place in first-seen order
FirstSeen(key, js) ==
    LET ids == { js[i].job_id : i \in { k \in 1..Len(js) : Category(js[k]) = key } }
    IN  CHOOSE m \in ids : \A x \in ids : m <= x

\* out holds exactly the jobs of js, bucket after bucket in the documented order
IsBucketOrder(js, out) ==
    /\ Len(out) = Len(js)
    /\ { out[i] : i \in 1..Len(out) } = { js[i] : i \in 1..Len(js) }
    /\ \A a, b \in 1..Len(out) :
         a < b =>
           /\ BucketClass(Category(out[a])) <= BucketClass(Category(out[b]))
           /\ (BucketClass(Category(out[a])) = BucketClass(Category(out[b]))
               /\ Category(out[a]) # Category(out[b]))
              => FirstSeen(Category(out[a]), js) < FirstSeen(Category(out[b]), js)

HasQosBucket(js) ==
    \E i \in 1..Len(js) : BucketClass(Category(js[i])) = 3

\* C1: for every job snapshot sort_jobs returns all the input jobs, bucket after
\* bucket, in the order RUNNING, Resources, Priority, the "qos" buckets in
\* first-seen order, Dependency, the remaining buckets in first-seen order.
C1_SortReturnsBucketOrder ==
    pc \in {"sort_returned", "sort_raised"} =>
        /\ pc = "sort_returned"
        /\ IsBucketOrder(jobs, result.jobs)

\* The same order holds of every snapshot that has no "qos" bucket; a snapshot
\* with one makes sort_jobs raise.
SortBucketOrderWithoutQos ==
    /\ (pc = "sort_returned" => ~HasQosBucket(jobs) /\ IsBucketOrder(jobs, result.jobs))
    /\ (pc = "sort_raised" => HasQosBucket(jobs))

\* C7: in the list sort_jobs returns, the RUNNING jobs are in ascending start
\* time (equal start times in ascending job id) and the jobs of every other
\* bucket are in ascending job id, whatever the order of the input list.
C7_OrderInsideBuckets ==
    pc = "sort_returned" =>
        \A a, b \in 1..Len(result.jobs) :
            (a < b /\ Category(result.jobs[a]) = Category(result.jobs[b])) =>
                IF result.jobs[a].job_state = "RUNNING"
                THEN \/ result.jobs[a].start_time < result.jobs[b].start_time
                     \/ /\ result.jobs[a].start_time = result.jobs[b].start_time
                        /\ result.jobs[a].job_id < result.jobs[b].job_id
                ELSE result.jobs[a].job_id < result.jobs[b].job_id

\* a returned list for an input that lists, against the output order, two RUNNING
\* jobs of different start times, and two jobs of one pending bucket by
\* descending id
C7_Witness ==
    /\ pc = "sort_returned"
    /\ Len(jobs) = 3
    /\ \E a, b \in 1..Len(jobs) :
         /\ a < b
         /\ jobs[a].job_state = "RUNNING" /\ jobs[b].job_state = "RUNNING"
         /\ jobs[a].start_time > jobs[b].start_time
         /\ jobs[a].job_id < jobs[b].job_id
    /\ \E a \in 1..Len(result.jobs) : result.jobs[a].job_state = "PENDING"
    /\ result.jobs # jobs

\* a state that sort_jobs does not know: neither RUNNING nor PENDING
IsUnrecognizedState(j) == j.job_state \notin {"RUNNING", "PENDING"}

\* C17: a job with an unrecognized state is not rejected and has a bucket of
\* its own: it shares no bucket with a job of another state, even one with the
\* same pending reason.  Buckets are emitted whole, one after another, so in
\* the returned list such a job never stands between two jobs of one bucket of
\* another state.
C17_UnrecognizedStateHasOwnBucket ==
    pc = "sort_returned" =>
        /\ \A i \in 1..Len(jobs) : \E k \in 1..Len(result.jobs) : result.jobs[k] = jobs[i]
        /\ \A a, b, c \in 1..Len(result.jobs) :
             ~(/\ a < b /\ b < c
               /\ IsUnrecognizedState(result.jobs[b])
               /\ result.jobs[a].job_state # result.jobs[b].job_state
               /\ result.jobs[a].job_state = result.jobs[c].job_state
               /\ result.jobs[a].state_reason = result.jobs[c].state_reason)

\* An unrecognized state is not rejected: the job is returned, in the bucket
\* of its reason string.
UnrecognizedStateFiledUnderReason ==
    pc = "sort_returned" =>
        \A k \in 1..Len(result.jobs) :
            IsUnrecognizedState(result.jobs[k]) =>
                \A a, c \in 1..Len(result.jobs) :
                    (a < k /\ k < c /\ Category(result.jobs[a]) = Category(result.jobs[c]))
                        => Category(result.jobs[k]) = Category(result.jobs[a])

\* --------------------------------------------------- claims: coalesce_jobs

\* the ids an output entry stands for: a bare job counts as its single id
EntryIds(e) == IF IsJobGroup(e) THEN e.ids ELSE <<e.job_id>>

RECURSIVE FlattenIds(_)
FlattenIds(out) == IF out = <<>> THEN <<>> ELSE EntryIds(Head(out)) \o FlattenIds(Tail(out))

\* the ids of the first n input jobs, in input order
InputIds(n) == [i \in 1..n |-> jobs[i].job_id]

\* C2: the id lists of the entries coalesce_jobs returns, concatenated, are the
\* input id sequence in input order (nothing lost, duplicated or reordered,
\* every group a contiguous run), and the output is no longer than the input.
C2_IdsPreservedInOrder ==
    pc = "coalesce_returned" =>
        /\ FlattenIds(coalesced) = InputIds(Len(jobs))
        /\ Len(coalesced) <= Len(jobs)

\* three jobs listed by descending id returned as a group and a bare job
C2_Witness ==
    /\ pc = "coalesce_returned"
    /\ Len(jobs) = 3
    /\ jobs[1].job_id > jobs[2].job_id
    /\ Len(coalesced) = 2
    /\ \E k \in 1..2 : IsJobGroup(coalesced[k]) /\ Len(coalesced[k].ids) = 2

\* input positions i and i + 1 are in the same output entry
SameEntry(i) ==
    \E k \in 1..Len(coalesced) :
        /\ \E a \in 1..Len(EntryIds(coalesced[k])) : EntryIds(coalesced[k])[a] = jobs[i].job_id
        /\ \E a \in 1..Len(EntryIds(coalesced[k])) : EntryIds(coalesced[k])[a] = jobs[i + 1].job_id

\* C3: two jobs adjacent in the input with exactly equal names are never in the
\* same output group, whatever precedes them.
C3_EqualNamesNeverGrouped ==
    pc = "coalesce_returned" =>
        \A i \in 1..(Len(jobs) - 1) :
            jobs[i].name = jobs[i + 1].name => ~SameEntry(i)

\* Equal names do stay apart when the first of the two is the bare accumulator:
\* a candidate whose name equals the name of a bare accumulator is not merged.
EqualNamesNotMergedIntoBareJob ==
    [][(/\ pc = "coalesce_loop"
        /\ current_group # None
        /\ ~IsJobGroup(current_group)
        /\ idx' = idx + 1
        /\ current_group.name = jobs[idx + 1].name)
       => (~merged' /\ current_group' = jobs[idx + 1])]_vars

\* name is P + "[" + d1 + "," + d2 + "]" + S for a common prefix P of n1 and n2
\* that is empty or ends with a delimiter and a common suffix S that is empty
\* or begins with one, where n1 = P + d1 + S and n2 = P + d2 + S
IsBracketedDiff(name, n1, n2) ==
    \E p \in 0..Min(Len(n1), Len(n2)) :
        \E q \in 0..(Min(Len(n1), Len(n2)) - p) :
            /\ SubSeq(n1, 1, p) = SubSeq(n2, 1, p)
            /\ SubSeq(n1, Len(n1) - q + 1, Len(n1)) = SubSeq(n2, Len(n2) - q + 1, Len(n2))
            /\ (p = 0 \/ n1[p] \in delimiters)
            /\ (q = 0 \/ n1[Len(n1) - q + 1] \in delimiters)
            /\ name = SubSeq(n1, 1, p) \o <<"[">> \o SubSeq(n1, p + 1, Len(n1) - q)
                        \o <<",">> \o SubSeq(n2, p + 1, Len(n2) - q) \o <<"]">>
                        \o SubSeq(n1, Len(n1) - q + 1, Len(n1))

\* the latest iteration merged its job into a bare accumulator
FreshGroup ==
    /\ pc = "coalesce_loop"
    /\ merged
    /\ IsJobGroup(current_group)
    /\ Len(current_group.ids) = 2

\* C5: a fresh group made of adjacent jobs named n1 and n2 has the combined
\* name P + "[" + d1 + "," + d2 + "]" + S, with P and S cut at the delimiters.
C5_FreshGroupName ==
    FreshGroup =>
        IsBracketedDiff(current_group.combined_name, jobs[idx - 1].name, jobs[idx].name)

\* The same holds of every fresh group whose seed name holds no "[".
FreshGroupNameWithoutBracket ==
    (FreshGroup /\ \A i \in 1..Len(jobs[idx - 1].name) : jobs[idx - 1].name[i] # "[") =>
        IsBracketedDiff(current_group.combined_name, jobs[idx - 1].name, jobs[idx].name)

\* C8: an accepted merge appends exactly the candidate's id at the end of the
\* id list, which starts as the seed job's id; earlier ids are neither removed
\* nor reordered.
C8_MergeAppendsCandidateId ==
    [][(/\ pc = "coalesce_loop"
        /\ current_group # None
        /\ idx' = idx + 1
        /\ coalesced' = coalesced)
       => /\ IsJobGroup(current_group')
          /\ current_group'.ids = Append(EntryIds(current_group), jobs[idx + 1].job_id)
          /\ current_group'.ids[1] = current_group'.job_id]_vars

\* a group of three ids, made by two merges, of jobs listed by descending id
C8_Witness ==
    /\ pc = "coalesce_loop"
    /\ idx = 3
    /\ merged
    /\ IsJobGroup(current_group)
    /\ Len(current_group.ids) = 3
    /\ jobs[1].job_id > jobs[3].job_id

\* the input position of the first id of output entry k
FirstPos(k) == Len(FlattenIds(SubSeq(coalesced, 1, k - 1))) + 1

\* C9: an unmerged job is returned as the same bare record; a one-job input
\* returns that job, an empty input an empty list, and every JobGroup returned
\* holds at least two ids.
C9_UnmergedJobsStayBare ==
    pc = "coalesce_returned" =>
        /\ (jobs = <<>> => coalesced = <<>>)
        /\ (Len(jobs) = 1 => coalesced = <<jobs[1]>>)
        /\ \A k \in 1..Len(coalesced) :
             IF IsJobGroup(coalesced[k])
             THEN Len(coalesced[k].ids) >= 2
             ELSE FirstPos(k) <= Len(jobs) /\ coalesced[k] = jobs[FirstPos(k)]

\* an output with a bare job after a group
C9_Witness ==
    /\ pc = "coalesce_returned"
    /\ Len(coalesced) = 2
    /\ IsJobGroup(coalesced[1])
    /\ ~IsJobGroup(coalesced[2])
    /\ coalesced[2] = jobs[3]

\* in this step the loop body takes an eligible candidate whose name differs
\* from the accumulator's
ComparesCandidate ==
    /\ pc = "coalesce_loop"
    /\ current_group # None
    /\ idx' = idx + 1
    /\ Eligible(current_group, jobs[idx + 1])
    /\ get_smart_diff(AccumulatorName(current_group), jobs[idx + 1].name) # None

\* D: the length of the candidate-side differing span in such a step
CandidateD == Len(get_smart_diff(AccumulatorName(current_group), jobs[idx + 1].name).diff2)

\* L: the length of the candidate's name
CandidateL == Len(jobs[idx + 1].name)

\* C13 as stated: an eligible candidate with a non-identical name is merged
\* if and only if D < L/4, or D < 5 and D < L/2, the quotients being exact.
C13_MergeAcceptedByThreshold ==
    [][ComparesCandidate =>
         (merged' <=> (\/ 4 * CandidateD < CandidateL
                       \/ CandidateD < 5 /\ 2 * CandidateD < CandidateL))]_vars

\* C13, amended: an eligible candidate with a non-identical name is merged if
\* and only if D < floor(L/4), or D < 5 and D < floor(L/2).
C13_MergeAcceptedByFloorThreshold ==
    [][ComparesCandidate =>
         (merged' <=> (\/ 4 * (CandidateD + 1) <= CandidateL
                       \/ CandidateD < 5 /\ 2 * (CandidateD + 1) <= CandidateL))]_vars

\* a candidate with a name of 24 characters and a differing span of 5 has been
\* merged: the quarter rule alone accepts it
C13_Witness ==
    /\ pc = "coalesce_loop"
    /\ idx = 2
    /\ merged
    /\ IsJobGroup(current_group)
    /\ Len(jobs[2].name) = 24
    /\ Len(get_smart_diff(jobs[1].name, jobs[2].name).diff2) = 5

\* no name of the input holds "[", "]" or ","
NamesArePlain ==
    \A i \in 1..Len(jobs) : \A k \in 1..Len(jobs[i].name) :
        jobs[i].name[k] \notin {"[", "]", ","}

\* the number of places of s that hold c
CountChar(s, c) == Cardinality({ i \in 1..Len(s) : s[i] = c })

\* C14: for job names without "[", "]" and ",", the combined name of a group
\* holds exactly one bracket pair after any number of merges: a candidate
\* merged into a group is spliced into the bracket list, never nested.
C14_GroupNameHasOneBracketPair ==
    (NamesArePlain /\ IsJobGroup(current_group)) =>
        /\ CountChar(current_group.combined_name, "[") = 1
        /\ CountChar(current_group.combined_name, "]") = 1

\* The splice does happen when the differing span of the group's combined
\* name is the bracket list itself: the merge then adds no bracket.
SplicedWhenDiffIsBracketList ==
    [][(/\ pc = "coalesce_loop"
        /\ IsJobGroup(current_group)
        /\ idx' = idx + 1
        /\ merged'
        /\ coalesced' = coalesced
        /\ NamesArePlain
        /\ LET d == get_smart_diff(current_group.combined_name, jobs[idx + 1].name).diff1
           IN  Len(d) >= 1 /\ d[1] = "[" /\ d[Len(d)] = "]")
       => CountChar(current_group'.combined_name, "[")
              = CountChar(current_group.combined_name, "[")]_vars

\* the accumulator and the candidate agree in partition, user, state and reason
SameAttributes(a, b) ==
    /\ a.partition = b.partition
    /\ a.user_name = b.user_name
    /\ a.job_state = b.job_state
    /\ a.state_reason = b.state_reason

\* the input position of the first id of entry k of the output list out
EntryStart(out, k) == Len(FlattenIds(SubSeq(out, 1, k - 1))) + 1

\* no group of out holds a RUNNING job, and the members of a group agree with
\* its seed job in partition, user, state and reason
GroupsAreUniform(out) ==
    \A k \in 1..Len(out) :
        (IsJobGroup(out[k]) /\ Len(out[k].ids) >= 2) =>
            \A i \in EntryStart(out, k)..(EntryStart(out, k) + Len(out[k].ids) - 1) :
                /\ jobs[i].job_state # "RUNNING"
                /\ SameAttributes(jobs[EntryStart(out, k)], jobs[i])

\* C15: a candidate is merged only if neither the accumulator nor the candidate
\* is RUNNING and they agree in partition, user, state and reason; so in every
\* output no RUNNING job is in a group of two or more ids and the members of a
\* group agree with its seed job in partition, user, state and reason.
C15_MergesOnlyEligibleJobs ==
    [][/\ (/\ pc = "coalesce_loop"
           /\ current_group # None
           /\ idx' = idx + 1
           /\ merged')
          => /\ current_group.job_state # "RUNNING"
             /\ jobs[idx + 1].job_state # "RUNNING"
             /\ SameAttributes(current_group, jobs[idx + 1])
       /\ pc' = "coalesce_returned" => GroupsAreUniform(coalesced')]_vars

\* a group of two jobs, and after it a bare job that differs from them in the
\* user only and has the name of the second
C15_Witness ==
    /\ pc = "coalesce_returned"
    /\ Len(jobs) = 3
    /\ Len(coalesced) = 2
    /\ IsJobGroup(coalesced[1])
    /\ coalesced[2] = jobs[3]
    /\ jobs[3].name = jobs[2].name
    /\ jobs[3].user_name # jobs[2].user_name
    /\ jobs[3].partition = jobs[2].partition
    /\ jobs[3].job_state = jobs[2].job_state
    /\ jobs[3].state_reason = jobs[2].state_reason

\* -------------------------------------------- claims: calculate_node_usage

Partitions == {"p1", "p2"}
ResourceTypes == {"cpus", "gpus", "memory"}

\* the names a job's node list expands to
ExpandedSet(job) ==
    { expand_nodelist(job.nodelist)[i] : i \in 1..Len(expand_nodelist(job.nodelist)) }

\* the job's per-node allocation of resource type r
AllocOf(job, r) ==
    CASE r = "cpus" -> CpusAlloc(job, Len(expand_nodelist(job.nodelist)))
      [] r = "gpus" -> GpusAlloc(job)
      [] r = "memory" -> MemAlloc(job, Len(expand_nodelist(job.nodelist)))

\* what job adds to node n, resource type r, partition p
Contribution(job, n, r, p) ==
    IF job.job_state = "RUNNING" /\ job.partition = p /\ n \in ExpandedSet(job)
    THEN AllocOf(job, r)
    ELSE 0

RECURSIVE SumContributions(_, _, _, _)
SumContributions(js, n, r, p) ==
    IF js = <<>> THEN 0
    ELSE Contribution(Head(js), n, r, p) + SumContributions(Tail(js), n, r, p)

\* C4: for every node n of the snapshot, resource type r and partition p, the
\* count returned is the sum, over the RUNNING jobs of partition p whose
\* expanded node list contains n, of the job's per-node allocation of r.
C4_UsageIsSumOverRunningJobs ==
    pc = "usage_returned" =>
        \A i \in 1..Len(nodes) :
            /\ nodes[i].name \in DOMAIN usage.usage
            /\ \A r \in ResourceTypes : \A p \in Partitions :
                 Get(usage.usage[nodes[i].name][r], p, 0)
                     = SumContributions(jobs, nodes[i].name, r, p)

\* two jobs of partition p1 on node n1, with 8 and 4 cpus, counted as 12
C4_Witness ==
    /\ pc = "usage_returned"
    /\ Len(jobs) = 2
    /\ "n1" \in DOMAIN usage.usage
    /\ Get(usage.usage["n1"].cpus, "p1", 0) = 12
    /\ Get(usage.usage["n1"].gpus, "p1", 0) = 2

\* C10: a job that is not RUNNING, or a RUNNING job whose node list expands to
\* nothing, leaves every entry of the usage map as it was and raises no error.
C10_SkippedJobsChangeNothing ==
    [][(/\ pc = "usage_loop"
        /\ idx' = idx + 1
        /\ \/ jobs[idx + 1].job_state # "RUNNING"
           \/ expand_nodelist(jobs[idx + 1].nodelist) = <<>>)
       => (usage' = usage /\ pc' = "usage_loop")]_vars

\* a RUNNING job with cpus to distribute and an empty expansion has been passed
\* over, after a job that was counted
C10_Witness ==
    /\ pc = "usage_loop"
    /\ idx = 2
    /\ jobs[2].job_state = "RUNNING"
    /\ expand_nodelist(jobs[2].nodelist) = <<>>
    /\ jobs[2].cpus > 0
    /\ "n1" \in DOMAIN usage.usage
    /\ Get(usage.usage["n1"].cpus, "p1", 0) = 8

\* the names of the node snapshot
SnapshotNames == { nodes[i].name : i \in 1..Len(nodes) }

\* a RUNNING job of the list has n in its expanded node list
HasRunningJobOn(n) ==
    \E i \in 1..Len(jobs) : jobs[i].job_state = "RUNNING" /\ n \in ExpandedSet(jobs[i])

\* C11: the node names of the usage map calculate_node_usage returns are exactly
\* the names of the node snapshot; a node no RUNNING job is allocated to has an
\* empty mapping for each resource type; a name a job's expansion yields that
\* the snapshot lacks raises no error and adds no key.
C11_UsageKeysAreSnapshotNodes ==
    /\ pc # "usage_raised"
    /\ pc = "usage_returned" =>
          /\ DOMAIN usage.usage = SnapshotNames
          /\ \A n \in SnapshotNames :
               ~HasRunningJobOn(n) =>
                   \A r \in ResourceTypes : DOMAIN usage.usage[n][r] = {}

\* a returned map for nodes n1 and n2 and a list with a job counted on n1 and a
\* RUNNING job on n3, which the snapshot lacks: n2 is there with empty mappings
C11_Witness ==
    /\ pc = "usage_returned"
    /\ SnapshotNames = {"n1", "n2"}
    /\ \E i \in 1..Len(jobs) : jobs[i].job_state = "RUNNING" /\ ExpandedSet(jobs[i]) = {"n3"}
    /\ HasRunningJobOn("n1")
    /\ ~HasRunningJobOn("n2")
    /\ Get(usage.usage["n1"].cpus, "p1", 0) > 0
    /\ DOMAIN usage.usage["n2"].cpus = {}

\* in this step the loop body counts a RUNNING job with a non-empty expansion
CountsJob ==
    /\ pc = "usage_loop"
    /\ idx' = idx + 1
    /\ jobs[idx + 1].job_state = "RUNNING"
    /\ expand_nodelist(jobs[idx + 1].nodelist) # <<>>

\* what the step adds to node n, resource type r, partition p
Added(n, r, p) == Get(usage'.usage[n][r], p, 0) - Get(usage.usage[n][r], p, 0)

\* the allocation as claimed: the parsed entry when present, else the job's
\* total integer-divided by the job's node_count field
ClaimedAlloc(job, key, total) ==
    IF key \in DOMAIN get_resources_per_node(job)
    THEN get_resources_per_node(job)[key]
    ELSE total \div job.node_count

\* the allocation as amended: the parsed entry when present and not 0, else
\* the job's total integer-divided by the number of names the node list
\* expands to
AmendedAlloc(job, key, total) ==
    IF key \in DOMAIN get_resources_per_node(job) /\ get_resources_per_node(job)[key] # 0
    THEN get_resources_per_node(job)[key]
    ELSE total \div Len(expand_nodelist(job.nodelist))

\* the step adds, on every snapshot node of the job's expansion and under the
\* job's partition, the given cpu and memory allocations and the parsed gpu
\* value or 0
AddsAllocations(cpus_alloc, mem_alloc) ==
    \A n \in ExpandedSet(jobs[idx + 1]) \cap SnapshotNames :
        /\ Added(n, "cpus", jobs[idx + 1].partition) = cpus_alloc
        /\ Added(n, "memory", jobs[idx + 1].partition) = mem_alloc
        /\ Added(n, "gpus", jobs[idx + 1].partition)
               = IF s_gpu \in DOMAIN get_resources_per_node(jobs[idx + 1])
                 THEN get_resources_per_node(jobs[idx + 1])[s_gpu]
                 ELSE 0

\* C16 as stated: for a RUNNING job the per-node CPU allocation is the parsed
\* cpu value whenever that entry is present, and otherwise the job's total CPU
\* count integer-divided by the job's node_count field; memory likewise with
\* mem and the total memory; the GPU allocation is the parsed gpu value or 0,
\* never divided.
C16_AllocationDividesByNodeCount ==
    [][CountsJob =>
         AddsAllocations(ClaimedAlloc(jobs[idx + 1], s_cpu, jobs[idx + 1].cpus),
                         ClaimedAlloc(jobs[idx + 1], s_mem, jobs[idx + 1].memory))]_vars

\* C16, amended: the per-node CPU allocation is the parsed cpu value whenever
\* that entry is present and not 0, and otherwise the job's total CPU count
\* integer-divided by the number of node names the job's node list expands
\* to; memory likewise; the GPU allocation is the parsed gpu value or 0, never
\* divided.
C16_AllocationDividesByExpandedNodes ==
    [][CountsJob =>
         AddsAllocations(AmendedAlloc(jobs[idx + 1], s_cpu, jobs[idx + 1].cpus),
                         AmendedAlloc(jobs[idx + 1], s_mem, jobs[idx + 1].memory))]_vars

\* a job of 5 cpus and 7 MB on two nodes with only a gpu entry has been counted
\* on both: 2 cpus, 3 MB and 1 gpu on each
C16_Witness ==
    /\ pc = "usage_loop"
    /\ idx = 1
    /\ jobs[1].job_state = "RUNNING"
    /\ jobs[1].tres_per_node = t_gresgpu1
    /\ jobs[1].cpus = 5 /\ jobs[1].memory = 7
    /\ SnapshotNames = {"n1", "n2"}
    /\ \A n \in {"n1", "n2"} :
         /\ Get(usage.usage[n].cpus, "p2", 0) = 2
         /\ Get(usage.usage[n].memory, "p2", 0) = 3
         /\ Get(usage.usage[n].gpus, "p2", 0) = 1

\* ------------------------------------------------------------ claims: main

\* C6: a failed fetch of the job snapshot or of the node snapshot in a tick
\* becomes an empty snapshot; the failure never leaves the tick or ends the
\* refresh loop.
C6_FetchFailureNeverEndsLoop ==
    /\ ~(pc = "main_raised" /\ "failed" \in {env.squeue, env.scontrol})
    /\ (pc \in {"tick_coalesce", "tick_get_nodes"} /\ env.squeue = "failed") => jobs = <<>>
    /\ (pc = "tick_render" /\ env.scontrol = "failed") => nodes = <<>>

\* The node half of it holds: a failed fetch of the nodes gives the core an
\* empty node snapshot and the tick goes on.
NodeFetchFailureGivesEmptySnapshot ==
    /\ ~(pc = "main_raised" /\ env.scontrol = "failed")
    /\ (pc \in {"tick_render", "tick_wait"} /\ env.scontrol = "failed") =>
           (nodes = <<>> /\ (pc = "tick_wait" => usage = [raised |-> FALSE, usage |-> << >>]))

\* what ends the wait as a cancellation: the quit key, or a keyboard interrupt
CancellationSignals == {"q", "Q", "interrupt"}

\* C12: a cancellation signal (the quit key or a keyboard interrupt) that
\* arrives during the wait between ticks ends the refresh loop cleanly: no
\* fetch or render step runs after it, the saved terminal settings are
\* restored and main returns 0; any other key only ends the wait, and the loop
\* goes on with the next tick.
C12_CancellationEndsLoopCleanly ==
    [][/\ pc # "main_returned"
       /\ pc = "tick_wait" =>
            IF env'.key \in CancellationSignals
            THEN /\ pc' = "main_returned"
                 /\ env'.rc = <<0>>
                 /\ ~env'.cbreak
                 /\ <<jobs', nodes', usage', tick'>> = <<jobs, nodes, usage, tick>>
            ELSE /\ pc' = "tick_get_jobs"
                 /\ env'.rc = <<>>
                 /\ env'.cbreak = env.cbreak]_vars

\* main has returned 0 in the second tick on a quit key, with the terminal, put
\* in cbreak mode at the start, restored; the wait of the first tick ended
\* without a cancellation
C12_Witness ==
    /\ pc = "main_returned"
    /\ tick = 2
    /\ env.key \in {"q", "Q"}
    /\ env.old_settings = "saved"
    /\ ~env.cbreak
    /\ env.rc = <<0>>

\* C18: within a tick the usage map render computes from the list main hands
\* it (the output of coalesce_jobs when merge is on) equals the usage map of
\* the un-coalesced job list of the tick for the same node snapshot: the merge
\* step hides and alters no RUNNING job.
C18_UsageIndependentOfMerge ==
    pc = "tick_wait" => usage = calculate_node_usage(nodes, result.jobs)

\* a tick with merge on, in which PENDING jobs were merged into a group next to
\* two RUNNING jobs with similar names, and these are counted on node n1
C18_Witness ==
    /\ pc = "tick_wait"
    /\ env.merge
    /\ Len(result.jobs) = 4
    /\ Len(jobs) = 3
    /\ IsJobGroup(jobs[3])
    /\ jobs[1].job_state = "RUNNING" /\ jobs[2].job_state = "RUNNING"
    /\ "n1" \in DOMAIN usage.usage
    /\ Get(usage.usage["n1"].cpus, "p1", 0) = 6
    /\ Get(usage.usage["n1"].gpus, "p1", 0) = 1

====
